---------------------------- MODULE Spec2Model ----------------------------
(***************************************************************************)
(* Demand forecasting system: the model capability contract (BaseModel and *)
(* its three variants), the ForecastManager registry / orchestration /     *)
(* ensemble aggregation, and the regression model's recursive forecast.    *)
(*                                                                         *)
(* Numbers are integers; an aggregated value (a mean, a median) is an      *)
(* exact rational <<numerator, denominator>>.  A date is the integer       *)
(* month * 32 + day, month counted from an epoch January, so that the      *)
(* order of dates is the order of integers.                                *)
(***************************************************************************)
EXTENDS Integers, Sequences, FiniteSets, TLC

(***************************************************************************)
(* Bounds of the model.                                                    *)
(***************************************************************************)
MaxPeriods == 2

(***************************************************************************)
(* Calendar (pandas DateOffset(months=k) and the 'ME' month-end frequency) *)
(***************************************************************************)
MkDate(m, d) == m * 32 + d
MonthOf(date) == date \div 32
DayOf(date) == date % 32

DaysInMonth(m) ==
    LET k == m % 12
    IN  IF k = 1 THEN 28
        ELSE IF k \in {3, 5, 8, 10} THEN 30
        ELSE 31

Min2(a, b) == IF a <= b THEN a ELSE b

\* pd.DateOffset(months=k): same day of month, clamped to the month's length
AddMonths(date, k) ==
    MkDate(MonthOf(date) + k, Min2(DayOf(date), DaysInMonth(MonthOf(date) + k)))

MonthEnd(m) == MkDate(m, DaysInMonth(m))

\* pd.date_range(start, periods=p, freq='ME'): the p month ends from start on
MonthEndRange(start, p) == [j \in 1..p |-> MonthEnd(MonthOf(start) + j - 1)]

(***************************************************************************)
(* Python dict (insertion ordered): a sequence of [key, val] entries.      *)
(***************************************************************************)
DictHas(d, k) == \E i \in 1..Len(d) : d[i].key = k
DictGet(d, k) == d[CHOOSE i \in 1..Len(d) : d[i].key = k].val
DictKeys(d) == [i \in 1..Len(d) |-> d[i].key]
DictKeySet(d) == {d[i].key : i \in 1..Len(d)}
\* d[k] = v that appends an entry even when the key is bound
DictSetAppend(d, k, v) == Append(d, [key |-> k, val |-> v])

\* d[k] = v: a bound key keeps its place
DictSet(d, k, v) ==
    IF DictHas(d, k)
    THEN [i \in 1..Len(d) |-> IF d[i].key = k THEN [key |-> k, val |-> v] ELSE d[i]]
    ELSE Append(d, [key |-> k, val |-> v])
DictDel(d, k) ==
    LET Keep(e) == e.key # k IN SelectSeq(d, Keep)


(***************************************************************************)
(* Historical data handed to fit.  In the manager's runs a data set is     *)
(* described by what the orchestration depends on: its columns, its number *)
(* of rows, its last (maximal) date, and a level that stands for its       *)
(* values.  DataSets[1] is the sample data of the tests (36 month ends up  *)
(* to a December 31), DataSets[2] a month-start series of 10 rows, too     *)
(* short for the regression model's lag window.                            *)
(***************************************************************************)
DataSets ==
    << [id |-> 1, columns |-> {"date", "demand"}, n |-> 36, last |-> MkDate(35, 31), level |-> 1],
       [id |-> 2, columns |-> {"date", "demand"}, n |-> 10, last |-> MkDate(9, 1),   level |-> 3] >>

DataIds == 1..Len(DataSets)

\* the (target_column, date_column) arguments a caller passes
ColumnArgs == { <<"demand", "date">>, <<"sales", "date">>, <<"demand", "fecha">> }

(***************************************************************************)
(* Model objects.  Pool lists the objects the caller constructs: the three *)
(* of test_forecast_manager and a second regression model that carries the *)
(* name "RF" as well.  gain stands for the hyperparameters: two models     *)
(* trained on the same data forecast different values.                     *)
(***************************************************************************)
Pool ==
    << [name |-> "Prophet", kind |-> "prophet", model_type |-> "none",              gain |-> 1],
       [name |-> "ARIMA",   kind |-> "arima",   model_type |-> "none",              gain |-> 2],
       [name |-> "RF",      kind |-> "ml",      model_type |-> "random_forest",     gain |-> 4],
       [name |-> "RF",      kind |-> "ml",      model_type |-> "linear_regression", gain |-> 3] >>

Objs == 1..Len(Pool)
Names == {Pool[o].name : o \in Objs}

\* the opaque estimator handle self.model: None, constructed but untrained,
\* or trained on data set `on`
NoEstimator == [st |-> "None", on |-> 0]
NewEstimator == [st |-> "new", on |-> 0]
Trained(dataId) == [st |-> "trained", on |-> dataId]

\* BaseModel.__init__ and the subclasses' __init__
NewModel(o) ==
    [ name          |-> Pool[o].name,
      kind          |-> Pool[o].kind,
      model_type    |-> Pool[o].model_type,
      gain          |-> Pool[o].gain,
      is_fitted     |-> FALSE,
      model         |-> NoEstimator,
      target_column |-> "None",
      date_column   |-> "None",
      last_date     |-> 0,
      last_values   |-> 0 ]

Outcome(m, err) == [obj |-> m, raised |-> err]

\* MLRegressionModel.fit that never looks up the columns it is given
MLFitAnyColumn(m, data, tc, dc) ==
    LET m4 == [m EXCEPT !.target_column = tc, !.date_column = dc,
                        !.last_date = data.last, !.last_values = data.id,
                        !.model = Trained(data.id), !.is_fitted = TRUE]
    IN  IF data.n <= 12 THEN Outcome([m4 EXCEPT !.model = NewEstimator,
                                                !.is_fitted = m.is_fitted], "ValueError")
        ELSE Outcome(m4, "none")

\* MLRegressionModel.fit: the statements in order, up to the first that raises
MLFit(m, data, tc, dc) ==
    LET m1 == [m EXCEPT !.target_column = tc, !.date_column = dc]
        m2 == [m1 EXCEPT !.last_date = data.last, !.last_values = data.id]
        m3 == [m2 EXCEPT !.model = NewEstimator]
        m4 == [m3 EXCEPT !.model = Trained(data.id), !.is_fitted = TRUE]
    IN  IF dc \notin data.columns \/ tc \notin data.columns
            THEN Outcome(m1, "KeyError")
        ELSE IF m.model_type \notin {"random_forest", "linear_regression"}
            THEN Outcome(m2, "ValueError")
        ELSE IF data.n <= 12
            THEN Outcome(m3, "ValueError")
        ELSE Outcome(m4, "none")

\* ARIMAModel.fit; ext: the external solver raises
ARIMAFit(m, data, tc, dc, ext) ==
    IF dc \notin data.columns \/ tc \notin data.columns
        THEN Outcome(m, "KeyError")
    ELSE IF ext
        THEN Outcome([m EXCEPT !.model = NewEstimator], "ExternalError")
    ELSE Outcome([m EXCEPT !.model = Trained(data.id), !.is_fitted = TRUE,
                           !.date_column = dc, !.target_column = tc,
                           !.last_date = data.last], "none")

\* ProphetModel.fit with is_fitted set before the solver runs
ProphetFitEarlyFlag(m, data, tc, dc, ext) ==
    IF dc \notin data.columns \/ tc \notin data.columns
        THEN Outcome(m, "KeyError")
    ELSE IF ext
        THEN Outcome([m EXCEPT !.model = NewEstimator, !.is_fitted = TRUE], "ExternalError")
    ELSE Outcome([m EXCEPT !.model = Trained(data.id), !.is_fitted = TRUE,
                           !.date_column = dc, !.target_column = tc], "none")

\* ProphetModel.fit; ext: the external solver raises
ProphetFit(m, data, tc, dc, ext) ==
    IF dc \notin data.columns \/ tc \notin data.columns
        THEN Outcome(m, "KeyError")
    ELSE IF ext
        THEN Outcome([m EXCEPT !.model = NewEstimator], "ExternalError")
    ELSE Outcome([m EXCEPT !.model = Trained(data.id), !.is_fitted = TRUE,
                           !.date_column = dc, !.target_column = tc], "none")

\* model.fit(data, target_column, date_column), dispatched on the variant
Fit(m, data, tc, dc, ext) ==
    IF m.kind = "ml" THEN MLFit(m, data, tc, dc)
    ELSE IF m.kind = "arima" THEN ARIMAFit(m, data, tc, dc, ext)
    ELSE ProphetFit(m, data, tc, dc, ext)

(***************************************************************************)
(* predict.  A DataFrame is its column names and its rows.                 *)
(***************************************************************************)
PredictionColumns == <<"date", "prediction", "lower_bound", "upper_bound">>

DataFrame(cols, rws) == [columns |-> cols, rows |-> rws]

NoFrame == DataFrame(<< >>, << >>)

\* what the trained estimator of m forecasts for the j-th future period
ForecastRow(m, date, j) ==
    LET point == m.gain * DataSets[m.model.on].level + j
    IN  [ date        |-> date,
          prediction  |-> point,
          lower_bound |-> point - 2 * m.gain,
          upper_bound |-> point + m.gain + DataSets[m.model.on].level ]

Returned(df) == [raised |-> "none", ret |-> df]
Raised(err) == [raised |-> err, ret |-> NoFrame]

\* MLRegressionModel.predict: the i-th date is last_date + DateOffset(months=i).
\* An untrained estimator raises at the first step; with no step at all the
\* empty frame has no 'prediction' column; a target column that the retained
\* window lacks raises at the latest when the interval is computed.
MLPredict(m, periods) ==
    IF ~m.is_fitted THEN Raised("NotFitted")
    ELSE IF periods >= 1 /\ m.model.st # "trained" THEN Raised("NotFittedError")
    ELSE IF periods <= 0 THEN Raised("KeyError")
    ELSE IF m.target_column \notin DataSets[m.last_values].columns THEN Raised("KeyError")
    ELSE Returned(DataFrame(PredictionColumns,
            [j \in 1..periods |-> ForecastRow(m, AddMonths(m.last_date, j), j)]))

\* ARIMAModel.predict without the is_fitted test
ARIMAPredictNoGuard(m, periods, ext) ==
    IF m.model.st # "trained" THEN Raised("AttributeError")
    ELSE IF ext THEN Raised("ExternalError")
    ELSE IF periods <= 0 THEN Raised("ValueError")
    ELSE LET dates == MonthEndRange(AddMonths(m.last_date, 1), periods)
         IN  Returned(DataFrame(PredictionColumns,
                [j \in 1..periods |-> ForecastRow(m, dates[j], j)]))

\* ARIMAModel.predict: month ends from last_date + one month on.  An
\* untrained ARIMA object has no forecast method; the solver rejects a
\* forecast of no step (its end lies before its start)
ARIMAPredict(m, periods, ext) ==
    IF ~m.is_fitted THEN Raised("NotFitted")
    ELSE IF m.model.st # "trained" THEN Raised("AttributeError")
    ELSE IF ext THEN Raised("ExternalError")
    ELSE IF periods <= 0 THEN Raised("ValueError")
    ELSE LET dates == MonthEndRange(AddMonths(m.last_date, 1), periods)
         IN  Returned(DataFrame(PredictionColumns,
                [j \in 1..periods |-> ForecastRow(m, dates[j], j)]))

\* ProphetModel.predict: make_future_dataframe(periods, freq='ME') gives the
\* month ends strictly after the last date of the history
ProphetPredict(m, periods, ext) ==
    IF ~m.is_fitted THEN Raised("NotFitted")
    ELSE IF m.model.st # "trained" THEN Raised("ExternalError")
    ELSE IF ext THEN Raised("ExternalError")
    ELSE LET last  == DataSets[m.model.on].last
             first == IF last = MonthEnd(MonthOf(last)) THEN MonthOf(last) + 1
                                                        ELSE MonthOf(last)
         IN  Returned(DataFrame(PredictionColumns,
                [j \in 1..periods |-> ForecastRow(m, MonthEnd(first + j - 1), j)]))

\* model.predict(periods), dispatched on the variant
Predict(m, periods, ext) ==
    IF m.kind = "ml" THEN MLPredict(m, periods)
    ELSE IF m.kind = "arima" THEN ARIMAPredict(m, periods, ext)
    ELSE ProphetPredict(m, periods, ext)

(***************************************************************************)
(* State.                                                                  *)
(*   objs         the model objects the caller holds (BaseModel fields)    *)
(*   models       ForecastManager.models: name -> object                   *)
(*   predictions  ForecastManager.predictions: name -> DataFrame           *)
(*   last         the last call: its arguments, the calls it made on the   *)
(*                models, whether it raised, and what it returned          *)
(*   reg, regLast a regression model with its numeric state, and the last  *)
(*                call on it                                               *)
(*   regSeen      per horizon, the first result of predict since the fit   *)
(***************************************************************************)
VARIABLES objs, models, predictions, last, reg, regLast, regSeen,
          session, gestLast, requested

mgrVars == <<objs, models, predictions, last>>
regVars == <<reg, regLast, regSeen>>
gestVars == <<session, gestLast, requested>>
vars == <<objs, models, predictions, last, reg, regLast, regSeen,
         session, gestLast, requested>>

Call(op, args, calls, raised, ret) ==
    [op |-> op, args |-> args, calls |-> calls, raised |-> raised, ret |-> ret]

\* ForecastManager.__init__
ManagerInit ==
    /\ objs = [o \in Objs |-> NewModel(o)]
    /\ models = << >>
    /\ predictions = << >>
    /\ last = Call("init", << >>, << >>, "none", << >>)

\* ForecastManager.add_model (every object of the pool is a BaseModel)
add_model(o) ==
    /\ models' = DictSet(models, objs[o].name, o)
    /\ last' = Call("add_model", <<o>>, << >>, "none", << >>)
    /\ UNCHANGED <<objs, predictions>>
    /\ UNCHANGED <<regVars, gestVars>>

\* remove_model that deletes the binding and keeps the stored set
remove_model_registry_only(name) ==
    /\ models' = IF DictHas(models, name) THEN DictDel(models, name) ELSE models
    /\ last' = Call("remove_model", <<name>>, << >>, "none", << >>)
    /\ UNCHANGED <<objs, predictions>>
    /\ UNCHANGED <<regVars, gestVars>>

\* ForecastManager.remove_model
remove_model(name) ==
    /\ models' = IF DictHas(models, name) THEN DictDel(models, name) ELSE models
    /\ predictions' = IF DictHas(predictions, name) THEN DictDel(predictions, name)
                                                    ELSE predictions
    /\ last' = Call("remove_model", <<name>>, << >>, "none", << >>)
    /\ UNCHANGED objs
    /\ UNCHANGED <<regVars, gestVars>>

\* fit_all without its try/except: the first fit that raises ends the loop
RECURSIVE FitAllLoopAbort(_, _, _, _, _, _, _)
FitAllLoopAbort(ms, i, st, data, tc, dc, exts) ==
    IF i > Len(ms) THEN st
    ELSE LET o   == ms[i].val
             out == Fit(st.objs[o], data, tc, dc, o \in exts)
             nxt == [objs  |-> [st.objs EXCEPT ![o] = out.obj],
                     calls |-> Append(st.calls, [obj |-> o, method |-> "fit", raised |-> out.raised])]
         IN  IF out.raised # "none" THEN nxt
             ELSE FitAllLoopAbort(ms, i + 1, nxt, data, tc, dc, exts)

\* the loop of fit_all from entry i on: each model's fit is tried, an
\* exception is caught and the loop goes on.  st = [objs, calls]
RECURSIVE FitAllLoop(_, _, _, _, _, _, _)
FitAllLoop(ms, i, st, data, tc, dc, exts) ==
    IF i > Len(ms) THEN st
    ELSE LET o   == ms[i].val
             out == Fit(st.objs[o], data, tc, dc, o \in exts)
         IN  FitAllLoop(ms, i + 1,
                 [objs  |-> [st.objs EXCEPT ![o] = out.obj],
                  calls |-> Append(st.calls, [obj |-> o, method |-> "fit", raised |-> out.raised])],
                 data, tc, dc, exts)

\* ForecastManager.fit_all
fit_all(data, tc, dc, exts) ==
    LET end == FitAllLoop(models, 1, [objs |-> objs, calls |-> << >>], data, tc, dc, exts)
    IN  /\ objs' = end.objs
        /\ last' = Call("fit_all", <<data.id, tc, dc>>, end.calls, "none", << >>)
        /\ UNCHANGED <<models, predictions>>
        /\ UNCHANGED <<regVars, gestVars>>

\* predict_all without the is_fitted test: predict is called on every model
RECURSIVE PredictAllLoopNoSkip(_, _, _, _, _, _)
PredictAllLoopNoSkip(ms, os, i, st, periods, exts) ==
    IF i > Len(ms) THEN st
    ELSE LET o   == ms[i].val
             out == Predict(os[o], periods, o \in exts)
             cs  == Append(st.calls,
                        [obj |-> o, method |-> "predict", raised |-> out.raised])
         IN  PredictAllLoopNoSkip(ms, os, i + 1,
                 [predictions |-> IF out.raised = "none"
                                  THEN DictSet(st.predictions, ms[i].key, out.ret)
                                  ELSE st.predictions,
                  calls |-> cs],
                 periods, exts)

\* the loop of predict_all from entry i on.  st = [predictions, calls]
RECURSIVE PredictAllLoop(_, _, _, _, _, _)
PredictAllLoop(ms, os, i, st, periods, exts) ==
    IF i > Len(ms) THEN st
    ELSE LET o == ms[i].val
         IN  IF ~os[o].is_fitted
             THEN PredictAllLoop(ms, os, i + 1, st, periods, exts)
             ELSE LET out == Predict(os[o], periods, o \in exts)
                      cs  == Append(st.calls,
                                 [obj |-> o, method |-> "predict", raised |-> out.raised])
                  IN  PredictAllLoop(ms, os, i + 1,
                          [predictions |-> IF out.raised = "none"
                                           THEN DictSet(st.predictions, ms[i].key, out.ret)
                                           ELSE st.predictions,
                           calls |-> cs],
                          periods, exts)

\* predict_all that does not start from an empty self.predictions
predict_all_keeping(periods, exts) ==
    LET end == PredictAllLoop(models, objs, 1, [predictions |-> predictions, calls |-> << >>],
                              periods, exts)
    IN  /\ predictions' = end.predictions
        /\ last' = Call("predict_all", <<periods>>, end.calls, "none", end.predictions)
        /\ UNCHANGED <<objs, models>>
        /\ UNCHANGED <<regVars, gestVars>>

\* ForecastManager.predict_all
predict_all(periods, exts) ==
    LET end == PredictAllLoop(models, objs, 1, [predictions |-> << >>, calls |-> << >>],
                              periods, exts)
    IN  /\ predictions' = end.predictions
        /\ last' = Call("predict_all", <<periods>>, end.calls, "none", end.predictions)
        /\ UNCHANGED <<objs, models>>
        /\ UNCHANGED <<regVars, gestVars>>

\* a direct call model.fit(data, target_column, date_column) by the caller
model_fit(o, data, tc, dc, ext) ==
    LET out == Fit(objs[o], data, tc, dc, ext)
    IN  /\ objs' = [objs EXCEPT ![o] = out.obj]
        /\ last' = Call("fit", <<o, data.id, tc, dc>>,
                        <<[obj |-> o, method |-> "fit", raised |-> out.raised]>>,
                        out.raised, << >>)
        /\ UNCHANGED <<models, predictions>>
        /\ UNCHANGED <<regVars, gestVars>>

\* a direct call model.predict(periods) by the caller
model_predict(o, periods, ext) ==
    LET out == Predict(objs[o], periods, ext)
    IN  /\ last' = Call("predict", <<o, periods>>,
                        <<[obj |-> o, method |-> "predict", raised |-> out.raised]>>,
                        out.raised, out.ret)
        /\ UNCHANGED <<objs, models, predictions>>
        /\ UNCHANGED <<regVars, gestVars>>

(***************************************************************************)
(* get_confidence_intervals, the same code in the three variants.  The     *)
(* caller passes a prediction set: a frame with a date and a prediction    *)
(* column, with or without the bound columns.                              *)
(***************************************************************************)
ColumnSet(df) == {df.columns[i] : i \in 1..Len(df.columns)}

\* df[cols]
Project(df, cols) ==
    DataFrame(cols, [i \in 1..Len(df.rows) |->
                       [c \in {cols[k] : k \in 1..Len(cols)} |-> df.rows[i][c]]])

IntervalColumns == <<"date", "lower_bound", "upper_bound">>

\* get_confidence_intervals that asks for one of the bound columns only
GetConfidenceIntervalsEither(m, df) ==
    IF "lower_bound" \in ColumnSet(df) \/ "upper_bound" \in ColumnSet(df)
    THEN Returned(Project(df, SelectSeq(IntervalColumns, LAMBDA c : c \in ColumnSet(df))))
    ELSE Raised("ValueError")

\* BaseModel.get_confidence_intervals as the three variants implement it
GetConfidenceIntervals(m, df) ==
    IF "lower_bound" \in ColumnSet(df) /\ "upper_bound" \in ColumnSet(df)
    THEN IF "date" \in ColumnSet(df) THEN Returned(Project(df, IntervalColumns))
                                     ELSE Raised("KeyError")
    ELSE Raised("ValueError")

\* the prediction sets a caller passes: two records, with both, one or none
\* of the bound columns
PredictionSets ==
    LET full == DataFrame(PredictionColumns,
                   << [date |-> MonthEnd(1), prediction |-> 5, lower_bound |-> 3, upper_bound |-> 8],
                      [date |-> MonthEnd(2), prediction |-> 6, lower_bound |-> 6, upper_bound |-> 7] >>)
    IN  << full,
           Project(full, <<"date", "prediction", "lower_bound">>),
           Project(full, <<"date", "prediction", "upper_bound">>),
           Project(full, <<"date", "prediction">>) >>

\* a direct call model.get_confidence_intervals(PredictionSets[f]) by the caller
model_get_confidence_intervals(o, f) ==
    LET out == GetConfidenceIntervals(objs[o], PredictionSets[f])
    IN  /\ last' = Call("get_confidence_intervals", <<o, f>>,
                        <<[obj |-> o, method |-> "get_confidence_intervals",
                           raised |-> out.raised]>>,
                        out.raised, out.ret)
        /\ UNCHANGED <<objs, models, predictions>>
        /\ UNCHANGED <<regVars, gestVars>>

(***************************************************************************)
(* Ensemble aggregation (pandas concat, groupby('date').agg).              *)
(***************************************************************************)
RECURSIVE SumSeq(_)
SumSeq(q) == IF q = << >> THEN 0 ELSE Head(q) + SumSeq(Tail(q))

RECURSIVE MinSeq(_)
MinSeq(q) == IF Len(q) = 1 THEN Head(q) ELSE Min2(Head(q), MinSeq(Tail(q)))

RECURSIVE MaxSeq(_)
MaxSeq(q) ==
    IF Len(q) = 1 THEN Head(q)
    ELSE LET r == MaxSeq(Tail(q)) IN IF Head(q) >= r THEN Head(q) ELSE r

\* the elements of a finite set of integers in ascending order
RECURSIVE SortedSeq(_)
SortedSeq(S) ==
    IF S = {} THEN << >>
    ELSE LET lo == CHOOSE x \in S : \A y \in S : x <= y
         IN  <<lo>> \o SortedSeq(S \ {lo})

\* the values of q in ascending order (with repetitions)
RECURSIVE SortValues(_)
SortValues(q) ==
    IF q = << >> THEN << >>
    ELSE LET lo == MinSeq(q)
             k  == CHOOSE i \in 1..Len(q) : q[i] = lo
         IN  <<lo>> \o SortValues([i \in 1..(Len(q) - 1) |-> IF i < k THEN q[i] ELSE q[i + 1]])

\* 'mean' taken for 'median' in the aggregation table
AggMeanAsMedian(q) ==
    LET v == SortValues(q)
        n == Len(q)
    IN  IF n % 2 = 1 THEN <<v[(n + 1) \div 2], 1>>
        ELSE <<v[n \div 2] + v[n \div 2 + 1], 2>>

\* the lower bound averaged in median mode, as it is in mean mode
AggMinAsMean(q) == <<SumSeq(q), Len(q)>>

\* the aggregation functions, as exact rationals <<numerator, denominator>>
AggMean(q) == <<SumSeq(q), Len(q)>>
AggMedian(q) ==
    LET v == SortValues(q)
        n == Len(q)
    IN  IF n % 2 = 1 THEN <<v[(n + 1) \div 2], 1>>
        ELSE <<v[n \div 2] + v[n \div 2 + 1], 2>>
AggMin(q) == <<MinSeq(q), 1>>
AggMax(q) == <<MaxSeq(q), 1>>

\* temp_df = pred_df.copy(); temp_df['model'] = model_name
TaggedCopy(name, df) ==
    DataFrame(Append(df.columns, "model"),
              [i \in 1..Len(df.rows) |->
                  [ date        |-> df.rows[i].date,
                    prediction  |-> df.rows[i].prediction,
                    lower_bound |-> df.rows[i].lower_bound,
                    upper_bound |-> df.rows[i].upper_bound,
                    model       |-> name ]])

\* the 'model' column added to the stored frame itself (no .copy())
StoredTaggedInPlace(name, df) == TaggedCopy(name, df)

\* what the stored frame is after its copy was tagged: the copy is a new
\* frame, the stored one keeps its columns
StoredAfterCopy(name, df) == df

\* pd.concat(all_preds, ignore_index=True): the rows of every tagged copy
RECURSIVE Combined(_, _)
Combined(preds, i) ==
    IF i > Len(preds) THEN << >>
    ELSE TaggedCopy(preds[i].key, preds[i].val).rows \o Combined(preds, i + 1)

\* the values of one column in the rows of one group
GroupColumn(rws, date, col) ==
    LET InGroup(r) == r.date = date
        g == SelectSeq(rws, InGroup)
    IN  [i \in 1..Len(g) |->
            IF col = "prediction" THEN g[i].prediction
            ELSE IF col = "lower_bound" THEN g[i].lower_bound
            ELSE g[i].upper_bound]

\* the aggregation with the two bound columns taken for each other
GroupByDateBoundsSwapped(rws, method) ==
    LET dates == SortedSeq({rws[i].date : i \in 1..Len(rws)})
    IN  [k \in 1..Len(dates) |->
            LET p == GroupColumn(rws, dates[k], "prediction")
                l == GroupColumn(rws, dates[k], "upper_bound")
                u == GroupColumn(rws, dates[k], "lower_bound")
            IN  IF method = "mean"
                THEN [date |-> dates[k], prediction |-> AggMean(p),
                      lower_bound |-> AggMean(l), upper_bound |-> AggMean(u)]
                ELSE [date |-> dates[k], prediction |-> AggMedian(p),
                      lower_bound |-> AggMin(l), upper_bound |-> AggMax(u)]]

\* combined.groupby('date').agg({...}).reset_index(): one row per date that
\* occurs in the combined rows, in ascending order of date
GroupByDate(rws, method) ==
    LET dates == SortedSeq({rws[i].date : i \in 1..Len(rws)})
    IN  [k \in 1..Len(dates) |->
            LET p == GroupColumn(rws, dates[k], "prediction")
                l == GroupColumn(rws, dates[k], "lower_bound")
                u == GroupColumn(rws, dates[k], "upper_bound")
            IN  IF method = "mean"
                THEN [date |-> dates[k], prediction |-> AggMean(p),
                      lower_bound |-> AggMean(l), upper_bound |-> AggMean(u)]
                ELSE [date |-> dates[k], prediction |-> AggMedian(p),
                      lower_bound |-> AggMin(l), upper_bound |-> AggMax(u)]]

\* the aggregation method strings a caller passes: the two the code knows
\* and 'weighted', which only the docstring lists
Methods == {"mean", "median", "weighted"}

\* get_ensemble_predictions with the method looked at before the predictions
EnsembleOutcomeMethodFirst(preds, method) ==
    IF method \notin {"mean", "median"} THEN Raised("UnknownMethod")
    ELSE IF preds = << >> THEN Raised("NoPredictions")
    ELSE Returned(DataFrame(PredictionColumns, GroupByDate(Combined(preds, 1), method)))

\* ForecastManager.get_ensemble_predictions: what it raises or returns
EnsembleOutcome(preds, method) ==
    IF preds = << >> THEN Raised("NoPredictions")
    ELSE IF method \in {"mean", "median"}
        THEN Returned(DataFrame(PredictionColumns, GroupByDate(Combined(preds, 1), method)))
    ELSE Raised("UnknownMethod")

\* ForecastManager.get_ensemble_predictions
get_ensemble_predictions(method) ==
    LET out == EnsembleOutcome(predictions, method)
    IN  /\ predictions' = [i \in 1..Len(predictions) |->
                              [key |-> predictions[i].key,
                               val |-> StoredAfterCopy(predictions[i].key, predictions[i].val)]]
        /\ last' = Call("get_ensemble_predictions", <<method>>, << >>, out.raised, out.ret)
        /\ UNCHANGED <<objs, models>>
        /\ UNCHANGED <<regVars, gestVars>>

\* get_model_comparison with the dates of the last stored set
ComparisonOutcomeLastDates(preds) ==
    IF preds = << >> THEN Raised("NoPredictions")
    ELSE LET first == preds[1].val
             n     == Len(first.rows)
         IN  IF \E k \in 1..Len(preds) : Len(preds[k].val.rows) # n
             THEN Raised("ValueError")
             ELSE Returned(DataFrame(
                      [k \in 1..Len(preds) |-> preds[k].key],
                      [i \in 1..n |->
                          [ date  |-> preds[Len(preds)].val.rows[i].date,
                            cells |-> [k \in 1..Len(preds) |->
                                          [ prediction |-> preds[k].val.rows[i].prediction,
                                            lower      |-> preds[k].val.rows[i].lower_bound,
                                            upper      |-> preds[k].val.rows[i].upper_bound ]] ]]))

\* ForecastManager.get_model_comparison: what it raises or returns.  The date
\* column is the first stored set's; every set's three columns are assigned
\* positionally, which raises when the lengths differ
ComparisonOutcome(preds) ==
    IF preds = << >> THEN Raised("NoPredictions")
    ELSE LET first == preds[1].val
             n     == Len(first.rows)
         IN  IF \E k \in 1..Len(preds) : Len(preds[k].val.rows) # n
             THEN Raised("ValueError")
             ELSE Returned(DataFrame(
                      [k \in 1..Len(preds) |-> preds[k].key],
                      [i \in 1..n |->
                          [ date  |-> first.rows[i].date,
                            cells |-> [k \in 1..Len(preds) |->
                                          [ prediction |-> preds[k].val.rows[i].prediction,
                                            lower      |-> preds[k].val.rows[i].lower_bound,
                                            upper      |-> preds[k].val.rows[i].upper_bound ]] ]]))

\* ForecastManager.get_model_comparison
get_model_comparison ==
    LET out == ComparisonOutcome(predictions)
    IN  /\ last' = Call("get_model_comparison", << >>, << >>, out.raised, out.ret)
        /\ UNCHANGED <<objs, models, predictions>>
        /\ UNCHANGED <<regVars, gestVars>>

\* get_summary that counts the stored prediction sets as the fitted models
SummaryFittedAsPredicted(ms, os, preds) ==
    [ total_models            |-> Len(ms),
      fitted_models           |-> Len(preds),
      models_with_predictions |-> Len(preds),
      model_names             |-> DictKeys(ms) ]

\* ForecastManager.get_summary: the dict it returns
Summary(ms, os, preds) ==
    [ total_models            |-> Len(ms),
      fitted_models           |-> Cardinality({i \in 1..Len(ms) : os[ms[i].val].is_fitted}),
      models_with_predictions |-> Len(preds),
      model_names             |-> DictKeys(ms) ]

\* ForecastManager.get_summary
get_summary ==
    /\ last' = Call("get_summary", << >>, << >>, "none", Summary(models, objs, predictions))
    /\ UNCHANGED <<objs, models, predictions>>
    /\ UNCHANGED <<regVars, gestVars>>

(***************************************************************************)
(* MLRegressionModel in detail: the rows of the history, the engineered    *)
(* features, the training rows and the recursive forecast.  Dates are      *)
(* months counted from January of BaseYear; a mean is the reduced fraction *)
(* <<numerator, denominator>>; a standard deviation is given by the        *)
(* reduced fraction of its square.                                         *)
(***************************************************************************)
\* data.tail(12): the rows kept for the lag features
Window == 12
\* for lag in [1, 2, 3, 6, 12]
Lags == {1, 2, 3, 6, Window}
\* the year of the first row of the sample data
BaseYear == 2021
\* the largest target value, observed or predicted
MaxValue == 4
\* the longest horizon asked of the regression model
MaxHorizon == 3

Row(date, y) == [date |-> date, y |-> y]
Values(rws) == [i \in 1..Len(rws) |-> rws[i].y]
Dates(rws) == [i \in 1..Len(rws) |-> rws[i].date]
TailRows(rws, k) == IF Len(rws) <= k THEN rws ELSE SubSeq(rws, Len(rws) - k + 1, Len(rws))
Reverse(rws) == [i \in 1..Len(rws) |-> rws[Len(rws) + 1 - i]]

\* a monthly history of n rows: month ends (day = 0) or a fixed day of the
\* month, values c + a*i, rows in ascending or descending date order
History(n, day, c, a, order) ==
    LET asc == [i \in 1..n |->
                  Row(IF day = 0 THEN MonthEnd(i - 1) ELSE MkDate(i - 1, day),
                      (c + a * i) % (MaxValue + 1))]
    IN  IF order = "ascending" THEN asc ELSE Reverse(asc)

\* month-end histories as generate_sample_data gives them, too short (Window
\* rows) and long enough, constant and varying; mid-month histories in
\* both row orders
Histories ==
    { History(n, 0, s[1], s[2], "ascending") :
        n \in {Window, Window + 1, Window + 2}, s \in {<<2, 0>>, <<1, 1>>, <<0, 3>>} }
    \cup { History(n, 15, 1, 1, order) :
        n \in {Window + 1, Window + 2}, order \in {"ascending", "descending"} }

RECURSIVE Gcd(_, _)
Gcd(a, b) == IF b = 0 THEN a ELSE Gcd(b, a % b)

\* the fraction n/d in lowest terms (n >= 0, d > 0)
Ratio(n, d) == LET g == Gcd(n, d) IN <<n \div g, d \div g>>

SumSq(q) == SumSeq([i \in 1..Len(q) |-> q[i] * q[i]])
\* n * sum(x^2) - sum(x)^2: n^2 times the population variance of q,
\* n*(n-1) times its sample variance
Spread(q) == Len(q) * SumSq(q) - SumSeq(q) * SumSeq(q)

\* dt.year, dt.month, dt.quarter, dt.dayofyear
Year(date) == BaseYear + MonthOf(date) \div 12
Month(date) == (MonthOf(date) % 12) + 1
Quarter(date) == (MonthOf(date) % 12) \div 3 + 1
RECURSIVE DaysBefore(_)
DaysBefore(m) == IF m % 12 = 0 THEN 0 ELSE DaysInMonth(m - 1) + DaysBefore(m - 1)
DayOfYear(date) == DaysBefore(MonthOf(date)) + DayOf(date)

\* rolling(window=w, min_periods=1) at row i: the rows i-w+1..i, row i included
RollingWindow(vals, i, w) == SubSeq(vals, IF i - w + 1 < 1 THEN 1 ELSE i - w + 1, i)
RollingMean(vals, i, w) ==
    LET win == RollingWindow(vals, i, w) IN Ratio(SumSeq(win), Len(win))
\* the square of rolling(...).std(): the sample variance, NaN on one value
RollingStd(vals, i, w) ==
    LET win == RollingWindow(vals, i, w)
    IN  IF Len(win) < 2 THEN <<0, 1>>
        ELSE Ratio(Spread(win), Len(win) * (Len(win) - 1))

\* shift(lag) at row i: the value lag rows above, NaN on the first lag rows
Shift(vals, i, lag) == IF i > lag THEN vals[i - lag] ELSE 0

\* the NaN cells when the longest lag is not among the features
NaNCellsShortLags(i) == [lags |-> {k \in Lags \ {Window} : i <= k}, rolling_std_3 |-> i < 2]

\* the NaN cells of row i of the frame _create_features returns: the lags
\* that reach above the first row, the deviation of a single value
NaNCells(i) == [lags |-> {k \in Lags : i <= k}, rolling_std_3 |-> i < 2]

\* row i of the frame _create_features returns
FeatureRow(rws, i) ==
    LET vals == Values(rws)
        d == rws[i].date
    IN  [ date |-> d, y |-> vals[i],
          year |-> Year(d), month |-> Month(d), quarter |-> Quarter(d),
          day_of_year |-> DayOfYear(d),
          lag_1 |-> Shift(vals, i, 1), lag_2 |-> Shift(vals, i, 2),
          lag_3 |-> Shift(vals, i, 3), lag_6 |-> Shift(vals, i, 6),
          lag_12 |-> Shift(vals, i, Window),
          rolling_mean_3 |-> RollingMean(vals, i, 3),
          rolling_mean_6 |-> RollingMean(vals, i, 6),
          rolling_std_3 |-> RollingStd(vals, i, 3),
          nan |-> NaNCells(i) ]

\* MLRegressionModel._create_features
CreateFeatures(rws) == [i \in 1..Len(rws) |-> FeatureRow(rws, i)]

\* _create_features(data).dropna(): the positions of the rows without a
\* NaN cell
DropNa(data) ==
    SelectSeq([i \in 1..Len(data) |-> i],
              LAMBDA i : NaNCells(i).lags = {} /\ ~NaNCells(i).rolling_std_3)

\* row[feature_cols]
FeatureCols(f) ==
    [ year |-> f.year, month |-> f.month, quarter |-> f.quarter,
      day_of_year |-> f.day_of_year,
      lag_1 |-> f.lag_1, lag_2 |-> f.lag_2, lag_3 |-> f.lag_3,
      lag_6 |-> f.lag_6, lag_12 |-> f.lag_12,
      rolling_mean_3 |-> f.rolling_mean_3, rolling_mean_6 |-> f.rolling_mean_6,
      rolling_std_3 |-> f.rolling_std_3 ]

\* the functions a trained regressor may compute: each a fixed function of
\* the twelve features
CoefSet ==
    { [lag |-> 1, roll |-> 0, cal |-> 0, bias |-> 0],
      [lag |-> 0, roll |-> 1, cal |-> 1, bias |-> 1],
      [lag |-> 1, roll |-> 1, cal |-> 0, bias |-> 2] }

\* self.model.predict(X_pred)[0]
Apply(coef, x) ==
    ( coef.bias
      + coef.lag * (x.lag_1 + 2 * x.lag_2 + 3 * x.lag_3 + 4 * x.lag_6 + 5 * x.lag_12)
      + coef.roll * (x.rolling_mean_3[1] + x.rolling_mean_3[2]
                     + x.rolling_mean_6[1] + x.rolling_mean_6[2]
                     + x.rolling_std_3[1] + x.rolling_std_3[2])
      + coef.cal * (x.year + x.month + x.quarter + x.day_of_year) ) % (MaxValue + 1)

RegNoEstimator == [st |-> "None", coef |-> [lag |-> 0, roll |-> 0, cal |-> 0, bias |-> 0], rows |-> << >>]
RegNewEstimator == [RegNoEstimator EXCEPT !.st = "new"]
RegTrained(coef, rws) == [st |-> "trained", coef |-> coef, rows |-> rws]

\* MLRegressionModel.__init__
RegNew ==
    [ model_type |-> "random_forest", is_fitted |-> FALSE, model |-> RegNoEstimator,
      target_column |-> "None", date_column |-> "None",
      last_date |-> 0, last_values |-> << >> ]

\* MLRegressionModel.fit(data, 'demand', 'date'); coef is the function the
\* regressor learns
RegFit(m, data, coef) ==
    LET m1 == [m EXCEPT !.target_column = "demand", !.date_column = "date"]
        kept == DropNa(data)
        m2 == [m1 EXCEPT !.last_date = MaxSeq(Dates(data)),
                         !.last_values = TailRows(data, Window)]
        m3 == [m2 EXCEPT !.model = RegNewEstimator]
    IN  IF m.model_type \notin {"random_forest", "linear_regression"}
        THEN Outcome(m2, "ValueError")
        ELSE IF kept = << >> THEN Outcome(m3, "ValueError")
        ELSE Outcome([m3 EXCEPT !.model = RegTrained(coef, kept), !.is_fitted = TRUE],
                     "none")

\* the loop of MLRegressionModel.predict from step i on; each step records
\* the window it starts from and the features it feeds to the regressor
RECURSIVE RegForecast(_, _, _, _, _)
RegForecast(m, i, periods, current_data, steps) ==
    IF i > periods THEN [steps |-> steps, current_data |-> current_data]
    ELSE LET next_date == AddMonths(m.last_date, i)
             combined == Append(current_data, Row(next_date, 0))
             last_row == CreateFeatures(combined)[Len(combined)]
             X_pred == FeatureCols(last_row)
             pred == Apply(m.model.coef, X_pred)
         IN  RegForecast(m, i + 1, periods,
                         TailRows(Append(current_data, Row(next_date, pred)), Window),
                         Append(steps, [date |-> next_date, prediction |-> pred,
                                        current_data |-> current_data,
                                        X_pred |-> X_pred]))

\* prediction + sign * 1.96 * 0.5 * sqrt(var)
Bound(prediction, sign, var) == [prediction |-> prediction, sign |-> sign, var |-> var]

\* the sample variance (ddof = 1) in the place of np.std
NpStdSample(vals) == Ratio(Spread(vals), Len(vals) * (Len(vals) - 1))

\* np.std(values) squared: the population variance
NpStd(vals) == Ratio(Spread(vals), Len(vals) * Len(vals))

RegRecords(steps, var) ==
    [j \in 1..Len(steps) |->
        [ date |-> steps[j].date, prediction |-> steps[j].prediction,
          lower_bound |-> Bound(steps[j].prediction, -1, var),
          upper_bound |-> Bound(steps[j].prediction, 1, var) ]]

RegOutcome(m, raised, ret, steps) == [obj |-> m, raised |-> raised, ret |-> ret, steps |-> steps]

\* as RegPredict, the interval taken from the window the loop ends with
RegPredictSlidingInterval(m, periods) ==
    IF ~m.is_fitted THEN RegOutcome(m, "NotFitted", << >>, << >>)
    ELSE IF periods >= 1 /\ m.model.st # "trained"
         THEN RegOutcome(m, "NotFittedError", << >>, << >>)
    ELSE IF periods <= 0 THEN RegOutcome(m, "KeyError", << >>, << >>)
    ELSE LET run == RegForecast(m, 1, periods, m.last_values, << >>)
         IN  RegOutcome(m, "none",
                        RegRecords(run.steps, NpStd(Values(run.current_data))),
                        run.steps)

\* as RegPredict, the loop sliding the retained window itself, not a copy
RegPredictSlidesWindow(m, periods) ==
    IF ~m.is_fitted THEN RegOutcome(m, "NotFitted", << >>, << >>)
    ELSE IF periods >= 1 /\ m.model.st # "trained"
         THEN RegOutcome(m, "NotFittedError", << >>, << >>)
    ELSE IF periods <= 0 THEN RegOutcome(m, "KeyError", << >>, << >>)
    ELSE LET run == RegForecast(m, 1, periods, m.last_values, << >>)
         IN  RegOutcome([m EXCEPT !.last_values = run.current_data], "none",
                        RegRecords(run.steps, NpStd(Values(m.last_values))),
                        run.steps)

\* MLRegressionModel.predict(periods)
RegPredict(m, periods) ==
    IF ~m.is_fitted THEN RegOutcome(m, "NotFitted", << >>, << >>)
    ELSE IF periods >= 1 /\ m.model.st # "trained"
         THEN RegOutcome(m, "NotFittedError", << >>, << >>)
    ELSE IF periods <= 0 THEN RegOutcome(m, "KeyError", << >>, << >>)
    ELSE LET run == RegForecast(m, 1, periods, m.last_values, << >>)
         IN  RegOutcome(m, "none",
                        RegRecords(run.steps, NpStd(Values(m.last_values))),
                        run.steps)

NotCalled == [raised |-> "notcalled", ret |-> << >>]

RegCall(op, periods, data, raised, ret, steps) ==
    [op |-> op, periods |-> periods, data |-> data, raised |-> raised,
     ret |-> ret, steps |-> steps, repeat |-> FALSE]

RegInit ==
    /\ reg = RegNew
    /\ regLast = RegCall("init", 0, << >>, "none", << >>, << >>)
    /\ regSeen = [p \in 0..MaxHorizon |-> NotCalled]

\* model.fit(data, 'demand', 'date') on the regression model
reg_fit(data, coef) ==
    LET out == RegFit(reg, data, coef)
    IN  /\ reg' = out.obj
        /\ regLast' = RegCall("fit", 0, data, out.raised, << >>, << >>)
        /\ regSeen' = [p \in 0..MaxHorizon |-> NotCalled]
        /\ UNCHANGED <<mgrVars, gestVars>>

\* model.predict(periods) on the regression model; regSeen keeps, for each
\* horizon, what the first call since the last fit gave, and repeat tells
\* that this call is not the first of its horizon
reg_predict(periods) ==
    LET out == RegPredict(reg, periods)
    IN  /\ reg' = out.obj
        /\ regLast' = [RegCall("predict", periods, << >>, out.raised, out.ret, out.steps)
                           EXCEPT !.repeat = regSeen[periods] # NotCalled]
        /\ regSeen' = IF regSeen[periods] = NotCalled
                      THEN [regSeen EXCEPT ![periods] = [raised |-> out.raised, ret |-> out.ret]]
                      ELSE regSeen
        /\ UNCHANGED <<mgrVars, gestVars>>

(***************************************************************************)
(* The gestor module: DemandForecasterSystem over the classes of the       *)
(* modelos package, driven by a caller's statements as in main.py and the  *)
(* tests of src/src/test.  A statement that raises leaves the session as   *)
(* it was, but for the modules loaded before the exception.                *)
(***************************************************************************)
MaxModelos == 2

Ids == {"ml_test", "test_prophet"}

Classes == {"ForecastModel", "ProphetModel", "ARIMAModel", "MLRegressionModel", "EnsembleModel"}

GestorModules == {"gestor", "modelos.forecast_model", "modelos.base_model",
                  "modelos.prophet_model", "modelos.arima_model",
                  "modelos.ml_model", "modelos.ensemble_model"}

ClassModule(cls) ==
    IF cls = "ForecastModel" THEN "modelos.forecast_model"
    ELSE IF cls = "ProphetModel" THEN "modelos.prophet_model"
    ELSE IF cls = "ARIMAModel" THEN "modelos.arima_model"
    ELSE IF cls = "MLRegressionModel" THEN "modelos.ml_model"
    ELSE "modelos.ensemble_model"

\* whether the module's file compiles: in forecast_model.py and ml_model.py
\* the class docstring opens at five columns and the first def stands at
\* four, an indentation that matches no enclosing block
Compiles(mod) == mod \notin {"modelos.forecast_model", "modelos.ml_model"}

\* the modules that the module's own import statements name, in order
ImportsOf(mod) ==
    IF mod \in {"modelos.prophet_model", "modelos.arima_model", "modelos.ensemble_model",
                "modelos.ml_model"}
    THEN <<"pandas", "modelos.forecast_model">>
    ELSE IF mod = "modelos.forecast_model" THEN <<"pandas">>
    ELSE << >>

\* the package that is imported before the module
Parent(mod) == IF mod \in GestorModules \ {"gestor"} THEN {"modelos"} ELSE {}

\* import of a module: the modules loaded after it and what it raised.  A
\* loaded module is not loaded again; a file is compiled before any of its
\* statements runs; a module whose import raises is not kept.
RECURSIVE Load(_, _), LoadImports(_, _, _, _)
Load(mod, modules) ==
    IF mod \in modules THEN [modules |-> modules, raised |-> "none"]
    ELSE IF mod = "pandas" THEN [modules |-> modules \cup {mod}, raised |-> "none"]
    ELSE IF ~Compiles(mod)
         THEN [modules |-> modules \cup Parent(mod), raised |-> "IndentationError"]
    ELSE LoadImports(mod, ImportsOf(mod), 1, modules \cup Parent(mod))

LoadImports(mod, imports, i, modules) ==
    IF i > Len(imports) THEN [modules |-> modules \cup {mod}, raised |-> "none"]
    ELSE LET r == Load(imports[i], modules)
         IN  IF r.raised # "none" THEN r
             ELSE LoadImports(mod, imports, i + 1, r.modules)

\* the lists of submodels an EnsembleModel is constructed with
EnsembleParts == {<< >>, <<"ProphetModel">>, <<"ProphetModel", "MLRegressionModel">>,
                  <<"ARIMAModel", "ForecastModel">>}

\* ForecastModel.__init__, and EnsembleModel.__init__ over new submodels
NewModelo(cls, id, parts) ==
    [cls |-> cls, modelo_id |-> id, datos |-> "None",
     submodelos |-> [i \in 1..Len(parts) |->
                        [cls |-> parts[i], modelo_id |-> id, datos |-> "None",
                         submodelos |-> << >>]]]

\* fit of the classes that are not ensembles
LeafFit(m, datos) ==
    IF m.cls = "ForecastModel" THEN m ELSE [m EXCEPT !.datos = datos]

ModeloFit(m, datos) ==
    IF m.cls = "EnsembleModel"
    THEN [m EXCEPT !.submodelos = [i \in 1..Len(m.submodelos) |->
                                      LeafFit(m.submodelos[i], datos)]]
    ELSE LeafFit(m, datos)

\* the constant each class forecasts
PredOf(cls) ==
    IF cls = "ProphetModel" THEN 1000 ELSE IF cls = "ARIMAModel" THEN 900 ELSE 1100

\* pd.DataFrame({"mes": list(range(horizonte)), "pred": [pred] * horizonte})
Pronostico(horizonte, pred) ==
    DataFrame(<<"mes", "pred">>, [i \in 1..horizonte |-> [mes |-> i - 1, pred |-> pred]])

Pronosticado(raised, ret) == [raised |-> raised, ret |-> ret]

\* predict of the classes that are not ensembles; the base class returns
\* pd.DataFrame(), a frame of no column and no row
LeafPredict(m, horizonte) ==
    IF m.cls = "ForecastModel" THEN Pronosticado("none", NoFrame)
    ELSE Pronosticado("none", Pronostico(horizonte, PredOf(m.cls)))

\* EnsembleModel.predict: the "pred" column of each submodel's forecast,
\* then their sum over their number.  The sums of EnsembleParts divide
\* exactly.
EnsemblePredict(m, horizonte) ==
    LET subs == m.submodelos
        total == SumSeq([i \in 1..Len(subs) |-> PredOf(subs[i].cls)])
    IN  IF \E i \in 1..Len(subs) : subs[i].cls = "ForecastModel"
        THEN Pronosticado("KeyError", NoFrame)
        ELSE IF Len(subs) = 0 THEN Pronosticado("ZeroDivisionError", NoFrame)
        ELSE Pronosticado("none", Pronostico(horizonte, total \div Len(subs)))

ModeloPredict(m, horizonte) ==
    IF m.cls = "EnsembleModel" THEN EnsemblePredict(m, horizonte)
    ELSE LeafPredict(m, horizonte)

\* the loop of generar_pronosticos from the i-th model on: the models as the
\* loop leaves them, the mapping, the calls made and the exception raised
RECURSIVE GenerarLoop(_, _, _, _, _)
GenerarLoop(modelos, i, horizonte, resultados, calls) ==
    IF i > Len(modelos)
    THEN [modelos |-> modelos, resultados |-> resultados, calls |-> calls, raised |-> "none"]
    ELSE LET fitted == ModeloFit(modelos[i], "datos simulados")
             pred == ModeloPredict(fitted, horizonte)
             after == [modelos EXCEPT ![i] = fitted]
             made == calls \o <<[op |-> "fit", model |-> i], [op |-> "predict", model |-> i]>>
         IN  IF pred.raised # "none"
             THEN [modelos |-> after, resultados |-> << >>, calls |-> made,
                   raised |-> pred.raised]
             ELSE GenerarLoop(after, i + 1, horizonte,
                              DictSet(resultados, modelos[i].modelo_id, pred.ret), made)

GestCall(op, args, raised, ret, calls) ==
    [op |-> op, args |-> args, raised |-> raised, ret |-> ret, calls |-> calls]

GestorInit ==
    /\ session = [modules |-> {}, asked |-> {}, built |-> FALSE, modelos |-> << >>]
    /\ gestLast = GestCall("init", << >>, "none", << >>, << >>)
    /\ requested = << >>

\* from <module> import <class>
import_from(mod) ==
    LET r == Load(mod, session.modules)
    IN  /\ session' = [session EXCEPT !.modules = r.modules, !.asked = @ \cup {mod}]
        /\ gestLast' = GestCall("import", <<mod>>, r.raised, << >>, << >>)
        /\ UNCHANGED requested
        /\ UNCHANGED <<mgrVars, regVars>>

\* sistema = DemandForecasterSystem()
new_sistema ==
    /\ IF "gestor" \in session.modules
       THEN /\ session' = [session EXCEPT !.built = TRUE, !.modelos = << >>]
            /\ gestLast' = GestCall("DemandForecasterSystem", << >>, "none", << >>, << >>)
            /\ requested' = << >>
       ELSE /\ gestLast' = GestCall("DemandForecasterSystem", << >>, "NameError", << >>, << >>)
            /\ UNCHANGED <<session, requested>>
    /\ UNCHANGED <<mgrVars, regVars>>

\* sistema.agregar_modelo(<class>(<id>)), an EnsembleModel over new submodels
\* of the classes parts, by a caller who has imported the classes it names:
\* a class name is bound when its import did not raise
agregar_modelo(cls, id, parts) ==
    LET needed == {ClassModule(cls)} \cup {ClassModule(parts[i]) : i \in 1..Len(parts)}
    IN  /\ Len(requested) < MaxModelos
        /\ needed \subseteq session.asked
        /\ IF ~session.built
           THEN /\ gestLast' = GestCall("agregar_modelo", <<cls, id>>, "NameError", << >>, << >>)
                /\ UNCHANGED <<session, requested>>
           ELSE /\ requested' = Append(requested, [cls |-> cls, modelo_id |-> id, parts |-> parts])
                /\ IF needed \subseteq session.modules
                   THEN /\ session' = [session EXCEPT
                                          !.modelos = Append(@, NewModelo(cls, id, parts))]
                        /\ gestLast' = GestCall("agregar_modelo", <<cls, id>>, "none",
                                                << >>, << >>)
                   ELSE /\ gestLast' = GestCall("agregar_modelo", <<cls, id>>, "NameError",
                                                << >>, << >>)
                        /\ UNCHANGED session
        /\ UNCHANGED <<mgrVars, regVars>>

\* resultados = sistema.generar_pronosticos(horizonte)
generar_pronosticos(horizonte) ==
    /\ IF ~session.built
       THEN /\ gestLast' = GestCall("generar_pronosticos", <<horizonte>>, "NameError",
                                    << >>, << >>)
            /\ UNCHANGED session
       ELSE LET out == GenerarLoop(session.modelos, 1, horizonte, << >>, << >>)
            IN  /\ session' = [session EXCEPT !.modelos = out.modelos]
                /\ gestLast' = GestCall("generar_pronosticos", <<horizonte>>, out.raised,
                                        out.resultados, out.calls)
    /\ UNCHANGED requested
    /\ UNCHANGED <<mgrVars, regVars>>

\* sistema.exportar_resultados(): prints a line
exportar_resultados ==
    /\ gestLast' = GestCall("exportar_resultados", << >>,
                            IF session.built THEN "none" ELSE "NameError", << >>, << >>)
    /\ UNCHANGED <<session, requested>>
    /\ UNCHANGED <<mgrVars, regVars>>

(***************************************************************************)
(* The manager and its models under an arbitrary caller.                   *)
(***************************************************************************)
Init ==
    /\ ManagerInit
    /\ RegInit
    /\ GestorInit

\* the caller's calls on a manager whose models are among the objects S
NextOn(S) ==
    \/ \E o \in S : add_model(o)
    \/ \E name \in {Pool[o].name : o \in S} : remove_model(name)
    \/ \E d \in DataIds : fit_all(DataSets[d], "demand", "date", {})
    \/ \E p \in 0..MaxPeriods : predict_all(p, {})
    \/ \E method \in Methods : get_ensemble_predictions(method)
    \/ get_model_comparison
    \/ get_summary

\* the three models of test_forecast_manager
TestObjs == {o \in Objs : \A q \in Objs : Pool[q].name = Pool[o].name => o <= q}

Next == NextOn(TestObjs)

Spec == Init /\ [][Next]_vars

(***************************************************************************)
(* The models alone, called directly by the caller.  Model objects share   *)
(* no state, so each is exercised on its own: the others stay as           *)
(* constructed.                                                            *)
(***************************************************************************)
Alone(o) == \A q \in Objs \ {o} : objs[q] = NewModel(q)

NextModel ==
    \/ \E o \in Objs, d \in DataIds, c \in ColumnArgs, ext \in BOOLEAN :
          Alone(o) /\ model_fit(o, DataSets[d], c[1], c[2], ext /\ Pool[o].kind # "ml")
    \/ \E o \in Objs, p \in 0..MaxPeriods, ext \in BOOLEAN :
          Alone(o) /\ model_predict(o, p, ext /\ Pool[o].kind # "ml")
    \/ \E o \in Objs, f \in 1..Len(PredictionSets) :
          Alone(o) /\ model_get_confidence_intervals(o, f)

SpecModel == Init /\ [][NextModel]_vars

(***************************************************************************)
(* The regression model alone, fitted and asked for forecasts.             *)
(***************************************************************************)
NextReg ==
    \/ \E data \in Histories, coef \in CoefSet : reg_fit(data, coef)
    \/ \E p \in 0..MaxHorizon : reg_predict(p)

SpecReg == Init /\ [][NextReg]_vars

(***************************************************************************)
(* The gestor system under a caller's statements.                          *)
(***************************************************************************)
NextGestor ==
    \/ \E mod \in GestorModules : import_from(mod)
    \/ new_sistema
    \/ \E cls \in Classes, id \in Ids :
          \E parts \in (IF cls = "EnsembleModel" THEN EnsembleParts ELSE {<< >>}) :
              agregar_modelo(cls, id, parts)
    \/ \E h \in 0..MaxHorizon : generar_pronosticos(h)
    \/ exportar_resultados

SpecGestor == Init /\ [][NextGestor]_vars

(***************************************************************************)
(* Properties.                                                             *)
(***************************************************************************)
IsFitted(o) == objs[o].is_fitted
NotRaised(calls) == {i \in 1..Len(calls) : calls[i].raised = "none"}

\* C1: fit_all returns without raising, calls fit exactly once on every
\* registered model in registry order whatever the earlier fits did, every
\* model whose fit did not raise is fitted afterwards, and when no registered
\* model was fitted before, get_summary's fitted_models is the number of fits
\* that did not raise.
C1_FitAllTolerant ==
    [][ last'.op = "fit_all" =>
          /\ last'.raised = "none"
          /\ Len(last'.calls) = Len(models)
          /\ \A i \in 1..Len(models) :
                /\ last'.calls[i].obj = models[i].val
                /\ last'.calls[i].method = "fit"
                /\ (last'.calls[i].raised = "none" => objs'[models[i].val].is_fitted)
          /\ ((\A i \in 1..Len(models) : ~objs[models[i].val].is_fitted) =>
                Summary(models', objs', predictions').fitted_models
                    = Cardinality(NotRaised(last'.calls))) ]_vars

\* three models registered, exactly one fit raised, two models fitted
C1_Witness ==
    /\ last.op = "fit_all"
    /\ Len(last.calls) = 3
    /\ Cardinality(NotRaised(last.calls)) = 2
    /\ Summary(models, objs, predictions).fitted_models = 2
    /\ \E i \in 1..3 : last.calls[i].raised # "none" /\ ~IsFitted(last.calls[i].obj)

\* the registered models that are fitted, in registry order
FittedEntries == LET F(e) == objs[e.val].is_fitted IN SelectSeq(models, F)

\* C2: predict_all calls predict on no unfitted model and exactly once on
\* each fitted registered model, does not raise when a predict raises, and
\* returns (and stores) a mapping whose keys are exactly the fitted registered
\* models whose predict did not raise.
C2_PredictAllIsolates ==
    last.op = "predict_all" =>
        /\ last.raised = "none"
        /\ Len(last.calls) = Len(FittedEntries)
        /\ \A i \in 1..Len(FittedEntries) :
              /\ last.calls[i].obj = FittedEntries[i].val
              /\ last.calls[i].method = "predict"
        /\ \A i \in 1..Len(last.calls) : IsFitted(last.calls[i].obj)
        /\ DictKeySet(last.ret)
              = {FittedEntries[i].key : i \in NotRaised(last.calls)}
        /\ Len(last.ret) = Cardinality(NotRaised(last.calls))
        /\ predictions = last.ret

\* three models registered, one unfitted and skipped, one whose predict
\* raised, one whose forecast is returned
C2_Witness ==
    /\ last.op = "predict_all"
    /\ Len(models) = 3
    /\ Len(last.calls) = 2
    /\ Len(last.ret) = 1
    /\ \E i \in 1..2 : last.calls[i].raised # "none"

\* C3: predict on a model of any variant that is not fitted fails with the
\* not-fitted error for every periods, returns no records and leaves the
\* model unfitted.
C3_PredictBeforeFit ==
    [][ (last'.op = "predict" /\ ~objs[last'.args[1]].is_fitted) =>
          /\ last'.raised = "NotFitted"
          /\ last'.ret = NoFrame
          /\ ~objs'[last'.args[1]].is_fitted ]_vars

\* predict(2) on an ARIMA model whose only fit raised in the solver
C3_Witness ==
    /\ last.op = "predict"
    /\ last.args[2] = 2
    /\ last.raised = "NotFitted"
    /\ objs[last.args[1]].kind = "arima"
    /\ objs[last.args[1]].model = NewEstimator

\* C4: is_fitted is false at construction, turns true only in a fit call
\* that does not raise, never turns false again under fit and predict calls,
\* and predict returns records only when is_fitted is true.
C4_Lifecycle ==
    /\ \A o \in Objs : ~objs[o].is_fitted
    /\ [][ /\ \A o \in Objs :
                /\ objs[o].is_fitted => objs'[o].is_fitted
                /\ (~objs[o].is_fitted /\ objs'[o].is_fitted) =>
                       (last'.op = "fit" /\ last'.args[1] = o /\ last'.raised = "none")
           /\ (last'.op = "predict" /\ last'.raised = "none") =>
                  (objs[last'.args[1]].is_fitted /\ objs'[last'.args[1]].is_fitted) ]_vars

\* a fitted model whose later fit raised: it is still fitted
C4_Witness ==
    /\ last.op = "fit"
    /\ last.raised # "none"
    /\ IsFitted(last.args[1])
    /\ objs[last.args[1]].model = NewEstimator

(***************************************************************************)
(* The stored prediction sets seen as a table: set k has at most one       *)
(* record per date.                                                        *)
(***************************************************************************)
Sets == 1..Len(predictions)
DatesOf(k) == {predictions[k].val.rows[i].date : i \in 1..Len(predictions[k].val.rows)}
RecordAt(k, d) ==
    predictions[k].val.rows[CHOOSE i \in 1..Len(predictions[k].val.rows) :
                                predictions[k].val.rows[i].date = d]
Contributors(d) == {k \in Sets : d \in DatesOf(k)}
ValueAt(k, d, col) ==
    IF col = "prediction" THEN RecordAt(k, d).prediction
    ELSE IF col = "lower_bound" THEN RecordAt(k, d).lower_bound
    ELSE RecordAt(k, d).upper_bound

RECURSIVE SumAt(_, _, _)
SumAt(K, d, col) ==
    IF K = {} THEN 0
    ELSE LET k == CHOOSE x \in K : TRUE
         IN  ValueAt(k, d, col) + SumAt(K \ {k}, d, col)

\* equality of rationals
SameRatio(a, b) == a[1] * b[2] = b[1] * a[2]

\* the j-th smallest of the values of col at date d among the sets K
OrderStat(K, d, col, j) ==
    CHOOSE v \in {ValueAt(k, d, col) : k \in K} :
        /\ Cardinality({k \in K : ValueAt(k, d, col) < v}) < j
        /\ j <= Cardinality({k \in K : ValueAt(k, d, col) <= v})

EnsembleReturned(method) ==
    /\ last.op = "get_ensemble_predictions"
    /\ last.args = <<method>>
    /\ last.raised = "none"

Registered == 1..Len(models)
SetOfModel(i) == CHOOSE k \in Sets : predictions[k].key = models[i].key

SetsShareDates == \A j, k \in Sets : DatesOf(j) = DatesOf(k)

\* C5 as stated: at every date of the 'mean' ensemble each of the three
\* values is the arithmetic mean over all registered models.  Stated for the
\* states in which the stored sets all have the same dates, where the
\* grouping by date plays no part.
C5_MeanOverRegistered ==
    (EnsembleReturned("mean") /\ SetsShareDates) =>
        \A r \in 1..Len(last.ret.rows) :
            LET row == last.ret.rows[r]
                d   == row.date
            IN  /\ \A i \in Registered :
                      /\ DictHas(predictions, models[i].key)
                      /\ d \in DatesOf(SetOfModel(i))
                /\ SameRatio(row.prediction,
                             <<SumAt({SetOfModel(i) : i \in Registered}, d, "prediction"),
                               Len(models)>>)
                /\ SameRatio(row.lower_bound,
                             <<SumAt({SetOfModel(i) : i \in Registered}, d, "lower_bound"),
                               Len(models)>>)
                /\ SameRatio(row.upper_bound,
                             <<SumAt({SetOfModel(i) : i \in Registered}, d, "upper_bound"),
                               Len(models)>>)

\* C5 (amended): at every date of the 'mean' ensemble, prediction,
\* lower_bound and upper_bound are the arithmetic means of the point
\* estimates, lower bounds and upper bounds of the stored prediction sets
\* that have a record at that date.
C5_MeanOverStored ==
    EnsembleReturned("mean") =>
        \A r \in 1..Len(last.ret.rows) :
            LET row == last.ret.rows[r]
                K   == Contributors(row.date)
            IN  /\ K # {}
                /\ SameRatio(row.prediction,
                             <<SumAt(K, row.date, "prediction"), Cardinality(K)>>)
                /\ SameRatio(row.lower_bound,
                             <<SumAt(K, row.date, "lower_bound"), Cardinality(K)>>)
                /\ SameRatio(row.upper_bound,
                             <<SumAt(K, row.date, "upper_bound"), Cardinality(K)>>)

\* a 'mean' ensemble of two dates over three stored sets whose mean is no
\* whole number
C5_Witness ==
    /\ EnsembleReturned("mean")
    /\ Len(predictions) = 3
    /\ Len(last.ret.rows) = 2
    /\ \A r \in 1..2 : Cardinality(Contributors(last.ret.rows[r].date)) = 3
    /\ last.ret.rows[1].prediction[1] % 3 # 0

\* C6: at every date of the 'median' ensemble, prediction is the median of
\* the point estimates of the stored sets with a record at that date (the
\* middle one, or the midpoint of the two middle ones), lower_bound is the
\* least of their lower bounds and upper_bound the greatest of their upper
\* bounds.
C6_MedianEnvelope ==
    EnsembleReturned("median") =>
        \A r \in 1..Len(last.ret.rows) :
            LET row == last.ret.rows[r]
                d   == row.date
                K   == Contributors(d)
                n   == Cardinality(K)
            IN  /\ K # {}
                /\ IF n % 2 = 1
                   THEN SameRatio(row.prediction,
                                  <<OrderStat(K, d, "prediction", (n + 1) \div 2), 1>>)
                   ELSE SameRatio(row.prediction,
                                  <<OrderStat(K, d, "prediction", n \div 2)
                                      + OrderStat(K, d, "prediction", n \div 2 + 1), 2>>)
                /\ row.lower_bound[2] = 1
                /\ \A k \in K : row.lower_bound[1] <= ValueAt(k, d, "lower_bound")
                /\ \E k \in K : row.lower_bound[1] = ValueAt(k, d, "lower_bound")
                /\ row.upper_bound[2] = 1
                /\ \A k \in K : row.upper_bound[1] >= ValueAt(k, d, "upper_bound")
                /\ \E k \in K : row.upper_bound[1] = ValueAt(k, d, "upper_bound")

\* a 'median' ensemble over three stored sets with different lower bounds
C6_Witness ==
    /\ EnsembleReturned("median")
    /\ Len(predictions) = 3
    /\ Len(last.ret.rows) = 2
    /\ \A r \in 1..2 : Cardinality(Contributors(last.ret.rows[r].date)) = 3
    /\ \E k \in Sets : ValueAt(k, last.ret.rows[1].date, "lower_bound")
                           # last.ret.rows[1].lower_bound[1]

EnsembleCalled == last'.op = "get_ensemble_predictions"

C8_NoPredictions ==
    [][ ((EnsembleCalled \/ last'.op = "get_model_comparison") /\ predictions = << >>) =>
          /\ last'.raised = "NoPredictions"
          /\ last'.ret = NoFrame
          /\ predictions' = << >> ]_vars

\* an unknown method asked for after a predict_all that stored nothing
\* although a model was registered
C8_Witness ==
    /\ last.op = "get_ensemble_predictions"
    /\ last.args = <<"weighted">>
    /\ last.raised = "NoPredictions"
    /\ predictions = << >>
    /\ models # << >>
    /\ \E i \in Registered : IsFitted(models[i].val)

\* the dates that occur in every stored prediction set
CommonDates == {d \in UNION {DatesOf(k) : k \in Sets} : \A k \in Sets : d \in DatesOf(k)}

\* C9 as stated: the ensemble has exactly one record per date that occurs in
\* every stored prediction set, and none for any other date.
C9_InnerJoin ==
    (last.op = "get_ensemble_predictions" /\ last.raised = "none") =>
        /\ {last.ret.rows[r].date : r \in 1..Len(last.ret.rows)} = CommonDates
        /\ Len(last.ret.rows) = Cardinality(CommonDates)

Forecast(p) == regSeen[p].raised = "none"

\* C10: on a fitted regression model, whenever predict(j) and predict(k)
\* with 1 <= j < k have both returned since the fit, the first j records of
\* predict(k) (date, prediction, lower_bound, upper_bound) are the records
\* of predict(j); the same holds of the records the last call returned.
C10_PrefixConsistent ==
    /\ \A k \in 1..MaxHorizon : \A j \in 1..(k - 1) :
          Forecast(j) /\ Forecast(k) => SubSeq(regSeen[k].ret, 1, j) = regSeen[j].ret
    /\ regLast.op = "predict" /\ regLast.raised = "none" =>
          /\ \A j \in 1..(regLast.periods - 1) :
                Forecast(j) => SubSeq(regLast.ret, 1, j) = regSeen[j].ret
          /\ \A k \in (regLast.periods + 1)..MaxHorizon :
                Forecast(k) => SubSeq(regSeen[k].ret, 1, regLast.periods) = regLast.ret

\* forecasts of one and of MaxHorizon periods were both returned, the long
\* one with a point estimate that moves and an interval of positive width
C10_Witness ==
    /\ Forecast(1) /\ Forecast(MaxHorizon)
    /\ regSeen[MaxHorizon].ret[1].prediction # regSeen[MaxHorizon].ret[MaxHorizon].prediction
    /\ regSeen[MaxHorizon].ret[1].lower_bound.var[1] > 0

\* the object of the last direct call, and the last date of the data its
\* estimator was trained on
Callee == objs[last.args[1]]
LastTrainingDate == DataSets[Callee.model.on].last
PredictReturned == last.op = "predict" /\ last.raised = "none"

\* C11: a predict(periods) with periods >= 1 that returns, on any fitted
\* model, gives exactly periods records; the i-th record lies in the i-th
\* month after the month of the last training date, hence the dates are
\* strictly increasing, one per consecutive month, all later than the last
\* training date; for the regression model the i-th date is the last
\* training date plus i months.
C11_FutureDates ==
    PredictReturned /\ last.args[2] >= 1 =>
        LET rws == last.ret.rows
        IN  /\ Len(rws) = last.args[2]
            /\ \A i \in 1..Len(rws) :
                 /\ rws[i].date > LastTrainingDate
                 /\ MonthOf(rws[i].date) = MonthOf(LastTrainingDate) + i
                 /\ Callee.kind = "ml" => rws[i].date = AddMonths(LastTrainingDate, i)

(***************************************************************************)
(* The manager offered two regression models that carry the same name,     *)
(* next to a model of another name.                                        *)
(***************************************************************************)
RivalObjs == {o \in Objs : Pool[o].kind # "arima"}

NextRival == NextOn(RivalObjs)

SpecRival == Init /\ [][NextRival]_vars

SameBindings(d, e, K) == \A k \in K : DictHas(e, k) /\ DictGet(e, k) = DictGet(d, k)

\* C12: add_model(m) binds m.name to m; when the name was bound already the
\* number of entries stays, otherwise it grows by one; every other binding
\* is as before.  remove_model(name) leaves neither a binding nor a stored
\* prediction set for name and every other binding and prediction set as
\* before; it never raises, and changes nothing when name is not registered.
C12_Registry ==
    [][ /\ last'.op = "add_model" =>
            LET name == objs[last'.args[1]].name
            IN  /\ DictHas(models', name) /\ DictGet(models', name) = last'.args[1]
                /\ Len(models') = IF DictHas(models, name) THEN Len(models)
                                                           ELSE Len(models) + 1
                /\ DictKeySet(models') = DictKeySet(models) \cup {name}
                /\ Cardinality(DictKeySet(models')) = Len(models')
                /\ SameBindings(models, models', DictKeySet(models) \ {name})
        /\ last'.op = "remove_model" =>
            LET name == last'.args[1]
            IN  /\ last'.raised = "none"
                /\ DictKeySet(models') = DictKeySet(models) \ {name}
                /\ DictKeySet(predictions') = DictKeySet(predictions) \ {name}
                /\ SameBindings(models, models', DictKeySet(models) \ {name})
                /\ SameBindings(predictions, predictions', DictKeySet(predictions) \ {name})
                /\ ~DictHas(models, name) =>
                      models' = models /\ predictions' = predictions /\ objs' = objs
      ]_vars

\* the second model named "RF" has just replaced the first, whose stored
\* prediction set is still there, next to the binding of another model
C12_Witness ==
    /\ last.op = "add_model" /\ last.args[1] = 4
    /\ DictHas(predictions, "RF") /\ ~objs[4].is_fitted
    /\ Len(models) = 2

Queries == {"get_summary", "get_model_comparison", "get_ensemble_predictions"}

\* C13: get_summary, get_model_comparison and get_ensemble_predictions,
\* whether they return or raise, leave the registry, every model's is_fitted
\* and every stored prediction set (columns and records) as they were; the
\* counts get_summary returns are the number of registered models, the
\* number of registered models with is_fitted true and the number of stored
\* prediction sets.
C13_QueriesReadOnly ==
    [][ last'.op \in Queries =>
          /\ models' = models
          /\ predictions' = predictions
          /\ \A o \in Objs : objs'[o].is_fitted = objs[o].is_fitted
          /\ last'.op = "get_summary" =>
               /\ last'.ret.total_models = Cardinality(DictKeySet(models))
               /\ last'.ret.fitted_models =
                     Cardinality({k \in DictKeySet(models) : objs[DictGet(models, k)].is_fitted})
               /\ last'.ret.models_with_predictions = Cardinality(DictKeySet(predictions))
      ]_vars

\* a summary with three different counts: some registered model is not
\* fitted and some fitted model has no stored prediction set
C13_Witness ==
    /\ last.op = "get_summary"
    /\ last.ret.models_with_predictions >= 1
    /\ last.ret.models_with_predictions < last.ret.fitted_models
    /\ last.ret.fitted_models < last.ret.total_models

ComparisonReturned == last.op = "get_model_comparison" /\ last.raised = "none"
DateColumn(rws) == [i \in 1..Len(rws) |-> rws[i].date]

\* the registered names in registration order that have a stored prediction set
StoredInOrder ==
    LET Stored(e) == DictHas(predictions, e.key) IN DictKeys(SelectSeq(models, Stored))

\* C14 as stated: the date column of the table get_model_comparison returns
\* is the date sequence of the prediction set of the first-registered model.
C14_FirstRegisteredDates ==
    ComparisonReturned =>
        /\ DictHas(predictions, models[1].key)
        /\ DateColumn(last.ret.rows) = DateColumn(DictGet(predictions, models[1].key).rows)

\* C14: the table get_model_comparison returns has the date sequence of the
\* first stored prediction set, which is the set of the first registered
\* model that has one; it has one row per record of that set, as many as
\* every stored set has; for every stored set, in order, it carries the
\* point, lower and upper values of that set's i-th record in row i.
C14_ComparisonTable ==
    ComparisonReturned =>
        LET t == last.ret
        IN  /\ predictions[1].key = StoredInOrder[1]
            /\ DateColumn(t.rows) = DateColumn(predictions[1].val.rows)
            /\ t.columns = DictKeys(predictions)
            /\ \A k \in 1..Len(predictions) :
                 /\ Len(predictions[k].val.rows) = Len(t.rows)
                 /\ \A i \in 1..Len(t.rows) :
                      /\ t.rows[i].cells[k].prediction = predictions[k].val.rows[i].prediction
                      /\ t.rows[i].cells[k].lower = predictions[k].val.rows[i].lower_bound
                      /\ t.rows[i].cells[k].upper = predictions[k].val.rows[i].upper_bound

\* a table of two models and two rows, returned while the first-registered
\* model has no stored set and the two stored sets differ in their dates
C14_Witness ==
    /\ ComparisonReturned
    /\ Len(last.ret.columns) = 2 /\ Len(last.ret.rows) = 2
    /\ ~DictHas(predictions, models[1].key)
    /\ DateColumn(predictions[1].val.rows) # DateColumn(predictions[2].val.rows)

\* C15: a predict call on a fitted regression model leaves is_fitted, the
\* stored last training date, the retained window and the estimator as they
\* were, and gives what the first predict of the same horizon since the fit
\* gave, whatever predict calls came in between.
C15_PredictStateless ==
    [][ regLast'.op = "predict" /\ reg.is_fitted =>
          /\ reg'.is_fitted = reg.is_fitted
          /\ reg'.last_date = reg.last_date
          /\ reg'.last_values = reg.last_values
          /\ reg'.model = reg.model
          /\ regSeen'[regLast'.periods] = [raised |-> regLast'.raised, ret |-> regLast'.ret]
      ]_vars

\* a forecast returned for the second time since the fit, with forecasts of
\* every other horizon returned as well
C15_Witness ==
    /\ regLast.op = "predict" /\ regLast.raised = "none" /\ regLast.repeat
    /\ regLast.periods < MaxHorizon
    /\ \A p \in 1..MaxHorizon : Forecast(p)

RegReturned == regLast.op = "predict" /\ regLast.raised = "none"

\* the population variance of the values q as the fraction
\* sum((n*x - sum(x))^2) / n^3
PopulationVariance(q) ==
    <<SumSeq([i \in 1..Len(q) |-> (Len(q) * q[i] - SumSeq(q)) * (Len(q) * q[i] - SumSeq(q))]),
      Len(q) * Len(q) * Len(q)>>

\* the record r carries the interval prediction -/+ 1.96 * 0.5 * sqrt(v)
SymmetricAround(r, v) ==
    /\ r.lower_bound.prediction = r.prediction /\ r.lower_bound.sign = -1
    /\ r.upper_bound.prediction = r.prediction /\ r.upper_bound.sign = 1
    /\ SameRatio(r.lower_bound.var, v) /\ SameRatio(r.upper_bound.var, v)

\* lower_bound < prediction < upper_bound
StrictlyInside(r) == r.lower_bound.var[1] > 0 /\ r.upper_bound.var[1] > 0

AllRecords(P(_)) ==
    /\ RegReturned => \A i \in 1..Len(regLast.ret) : P(regLast.ret[i])
    /\ \A p \in 1..MaxHorizon : Forecast(p) => \A i \in 1..p : P(regSeen[p].ret[i])

\* C16 as stated: every record the regression model's predict returns lies
\* strictly inside its interval, lower_bound < prediction < upper_bound.
C16_StrictInterval == AllRecords(StrictlyInside)

\* C16: every record the regression model's predict returns, at every
\* position and for every horizon, carries the interval prediction -/+
\* 1.96 * 0.5 * s, s the population standard deviation of the target values
\* of the retained window; prediction lies strictly inside it exactly when
\* the values of the window are not all equal, and on both bounds otherwise.
C16_SymmetricInterval ==
    LET v == PopulationVariance(Values(reg.last_values))
        Fixed(r) == /\ SymmetricAround(r, v)
                    /\ StrictlyInside(r) <=>
                         \E i, j \in 1..Len(reg.last_values) :
                             reg.last_values[i].y # reg.last_values[j].y
    IN  AllRecords(Fixed)

\* a forecast of MaxHorizon records with an interval of positive width,
\* from a window that does not hold the whole history
C16_Witness ==
    /\ RegReturned /\ regLast.periods = MaxHorizon
    /\ StrictlyInside(regLast.ret[MaxHorizon])
    /\ Forecast(1)
    /\ reg.model.rows = <<Window + 1, Window + 2>>

\* C17: for every model variant, a fit whose target_column or date_column is
\* not a column of the data raises, and a model that was not fitted before
\* the call is not fitted after it.
C17_AbsentColumn ==
    [][ ( /\ last'.op = "fit"
          /\ \/ last'.args[3] \notin DataSets[last'.args[2]].columns
             \/ last'.args[4] \notin DataSets[last'.args[2]].columns ) =>
          /\ last'.raised # "none"
          /\ ~objs[last'.args[1]].is_fitted => ~objs'[last'.args[1]].is_fitted
      ]_vars

\* a regression model, never fitted, whose fit has just raised on data
\* without the date column it was given
C17_Witness ==
    /\ last.op = "fit" /\ last.raised = "KeyError"
    /\ last.args[4] \notin DataSets[last.args[2]].columns
    /\ Callee.kind = "ml" /\ ~Callee.is_fitted /\ Callee.model = NoEstimator

\* C18: for every model variant, fitted or not, get_confidence_intervals of
\* a prediction set that carries both bound columns returns, record by
\* record, the date, lower_bound and upper_bound of the set and nothing
\* else; of a set that lacks lower_bound or upper_bound it raises; either
\* way it leaves the model as it was.
C18_ConfidenceIntervals ==
    [][ last'.op = "get_confidence_intervals" =>
          LET df == PredictionSets[last'.args[2]]
              has(c) == \E k \in 1..Len(df.columns) : df.columns[k] = c
          IN  /\ objs' = objs
              /\ IF has("lower_bound") /\ has("upper_bound")
                 THEN /\ last'.raised = "none"
                      /\ last'.ret.columns = <<"date", "lower_bound", "upper_bound">>
                      /\ Len(last'.ret.rows) = Len(df.rows)
                      /\ \A i \in 1..Len(df.rows) :
                           /\ DOMAIN last'.ret.rows[i] = {"date", "lower_bound", "upper_bound"}
                           /\ last'.ret.rows[i].date = df.rows[i].date
                           /\ last'.ret.rows[i].lower_bound = df.rows[i].lower_bound
                           /\ last'.ret.rows[i].upper_bound = df.rows[i].upper_bound
                 ELSE last'.raised # "none"
      ]_vars

\* the intervals of a full prediction set returned by a model that is not
\* fitted
C18_Witness ==
    /\ last.op = "get_confidence_intervals" /\ last.raised = "none"
    /\ Len(last.ret.rows) = 2
    /\ ~Callee.is_fitted

RecordCount(k) == Len(predictions[k].val.rows)

\* C19: in every state all stored prediction sets have the same number of
\* records.  After a predict_all the stored sets are exactly those of the
\* models whose predict returned in that call, each of periods records, so
\* no set of an earlier call is left, also not for a model whose predict
\* raised this time; between two predict_all no set appears or changes its
\* number of records.
C19_OneHorizon ==
    /\ [](\A j, k \in 1..Len(predictions) : RecordCount(j) = RecordCount(k))
    /\ [][ /\ last'.op = "predict_all" =>
                /\ \A k \in 1..Len(predictions') :
                       Len(predictions'[k].val.rows) = last'.args[1]
                /\ DictKeySet(predictions') =
                       { objs[last'.calls[c].obj].name :
                           c \in {d \in 1..Len(last'.calls) : last'.calls[d].raised = "none"} }
           /\ last'.op # "predict_all" =>
                \A k \in DictKeySet(predictions') :
                    /\ DictHas(predictions, k)
                    /\ Len(DictGet(predictions', k).rows) = Len(DictGet(predictions, k).rows)
         ]_vars

\* after a predict_all in which the predict of one fitted model raised and
\* that of another returned, the only stored set is the one just returned
C19_Witness ==
    /\ last.op = "predict_all"
    /\ \E c \in 1..Len(last.calls) : last.calls[c].raised # "none"
    /\ Len(predictions) = 1
    /\ Cardinality({o \in Objs : objs[o].is_fitted}) = 3

LastValues(q, w) == SubSeq(q, Len(q) - w + 1, Len(q))
MeanOf(q) == <<SumSeq(q), Len(q)>>
SampleVarianceOf(q) == <<Len(q) * SumSq(q) - SumSeq(q) * SumSeq(q), Len(q) * (Len(q) - 1)>>

\* a rolling feature of width w taken from the known-or-predicted values q
\* alone: over the w latest of them, or over the w - 1 latest (the window
\* that ends at the forecast row, without that row's placeholder)
FromKnownValues(feature, q, w, Stat(_)) ==
    \/ SameRatio(feature, Stat(LastValues(q, w)))
    \/ SameRatio(feature, Stat(LastValues(q, w - 1)))

\* C20: at every step of the regression model's recursive forecast, the
\* rolling mean over 3 and over 6 periods and the rolling standard deviation
\* over 3 periods that are fed to the regressor are computed from the known
\* or predicted values of the 12-value window only; the placeholder target
\* of the row appended for the forecast period is in none of the windows.
C20_RollingExcludesPlaceholder ==
    RegReturned =>
        \A i \in 1..Len(regLast.steps) :
            LET known == Values(regLast.steps[i].current_data)
                x == regLast.steps[i].X_pred
            IN  /\ FromKnownValues(x.rolling_mean_3, known, 3, MeanOf)
                /\ FromKnownValues(x.rolling_mean_6, known, 6, MeanOf)
                /\ FromKnownValues(x.rolling_std_3, known, 3, SampleVarianceOf)

LagOf(x, n) ==
    CASE n = 1 -> x.lag_1 [] n = 2 -> x.lag_2 [] n = 3 -> x.lag_3
      [] n = 6 -> x.lag_6 [] OTHER -> x.lag_12

\* the rows of the retained window that are dated k months before the last
\* training date
TrainingRows(k) ==
    {j \in 1..Len(reg.last_values) :
        MonthOf(reg.last_values[j].date) = MonthOf(reg.last_date) - k}

\* C21: at every step i of the regression model's recursive forecast the
\* sliding window holds exactly 12 rows, those of the 12 months before the
\* forecast date in chronological order, and each lag feature lag_n, n in
\* {1,2,3,6,12}, is the prediction of step i-n when i-n >= 1 and otherwise
\* the observed value of the training row n-i months before the last
\* training row.
C21_WindowAndLags ==
    RegReturned =>
        \A i \in 1..Len(regLast.steps) :
            LET s == regLast.steps[i]
            IN  /\ Len(s.current_data) = Window
                /\ \A k \in 1..Len(s.current_data) :
                      MonthOf(s.current_data[k].date) = MonthOf(s.date) - (Window + 1 - k)
                /\ \A n \in Lags :
                      IF i - n >= 1
                      THEN LagOf(s.X_pred, n) = regLast.steps[i - n].prediction
                      ELSE /\ TrainingRows(n - i) # {}
                           /\ \A j \in TrainingRows(n - i) :
                                 LagOf(s.X_pred, n) = reg.last_values[j].y

\* C22: a regression fit on n rows without missing values, n > 12, trains on
\* the rows at positions 13..n and on no other, each of them with its five
\* lag features defined; on n <= 12 rows it raises and a model that was not
\* fitted stays not fitted.
C22_TrainingRows ==
    [][ regLast'.op = "fit" =>
          LET n == Len(regLast'.data)
          IN  IF n <= 12
              THEN /\ regLast'.raised # "none"
                   /\ ~reg.is_fitted => ~reg'.is_fitted
              ELSE /\ regLast'.raised = "none"
                   /\ reg'.model.rows = [i \in 1..(n - 12) |-> 12 + i]
                   /\ \A k \in 1..Len(reg'.model.rows) : \A lag \in {1, 2, 3, 6, 12} :
                         reg'.model.rows[k] - lag >= 1
      ]_vars

\* a fit on Window + 2 rows that trained on the last two of them
C22_Witness ==
    /\ regLast.op = "fit" /\ regLast.raised = "none"
    /\ Len(regLast.data) = Window + 2
    /\ Len(reg.model.rows) = 2

\* C23: after a regression fit that returns, whatever the order of the rows
\* given, the retained window consists of the 12 rows with the latest dates
\* in ascending date order, its last row dated at the stored last training
\* date, and lag_1 of every training row is the value of the row dated one
\* month before it.
C23_FitSortsByDate ==
    regLast.op = "fit" /\ regLast.raised = "none" =>
        LET data == regLast.data
            w == reg.last_values
        IN  /\ \A k \in 1..(Len(w) - 1) : w[k].date < w[k + 1].date
            /\ w[Len(w)].date = reg.last_date
            /\ \A i \in 1..Len(data) :
                  (\E k \in 1..Len(w) : w[k] = data[i]) <=>
                      Cardinality({j \in 1..Len(data) : data[j].date > data[i].date}) < Window
            /\ \A k \in 1..Len(reg.model.rows) :
                  LET r == reg.model.rows[k]
                  IN  \E j \in 1..Len(data) :
                         /\ MonthOf(data[j].date) = MonthOf(data[r].date) - 1
                         /\ FeatureRow(data, r).lag_1 = data[j].y

\* C24: a fit that raises on a fitted regression model leaves the model (its
\* is_fitted, estimator, column names, last training date and retained
\* window) as it was before the call, so that is_fitted still stands for a
\* trained estimator.
C24_FailedFitAtomic ==
    [][ regLast'.op = "fit" /\ regLast'.raised # "none" /\ reg.is_fitted =>
          /\ reg' = reg
          /\ reg'.model.st = "trained"
      ]_vars

\* the frame df is what object o returns from predict after some fit of it
ProducedBy(df, o) ==
    \E d \in DataIds :
        LET m == Fit(NewModel(o), DataSets[d], "demand", "date", FALSE).obj
        IN  m.is_fitted /\ Predict(m, Len(df.rows), FALSE) = Returned(df)

\* C25: in every state, every stored prediction set is stored under a
\* registered name and was produced by the model object that is registered
\* under that name now.
C25_SetsOfRegisteredModels ==
    \A k \in 1..Len(predictions) :
        /\ DictHas(models, predictions[k].key)
        /\ ProducedBy(predictions[k].val, DictGet(models, predictions[k].key))

\* C26: whenever get_summary returns, after any calls of add_model,
\* remove_model, fit_all and predict_all, its counts satisfy
\* models_with_predictions <= fitted_models <= total_models.
C26_SummaryOrdered ==
    last.op = "get_summary" =>
        /\ last.ret.models_with_predictions <= last.ret.fitted_models
        /\ last.ret.fitted_models <= last.ret.total_models

\* C27: in every state, every name that has a stored prediction set is a
\* registered model name.
C27_PredictionsOfRegistered == DictKeySet(predictions) \subseteq DictKeySet(models)

\* a fitted model has just been removed while the stored set of another
\* registered model remains
C27_Witness ==
    /\ last.op = "remove_model"
    /\ Len(predictions) >= 1
    /\ \E o \in Objs : objs[o].is_fitted /\ last.args[1] = objs[o].name
                        /\ ~DictHas(models, objs[o].name)

\* a/b <= c/d for fractions with positive denominators
RatioLeq(a, b) == a[1] * b[2] <= b[1] * a[2]

StoredOrdered ==
    \A k \in 1..Len(predictions) : \A i \in 1..Len(predictions[k].val.rows) :
        LET r == predictions[k].val.rows[i]
        IN  r.lower_bound <= r.prediction /\ r.prediction <= r.upper_bound

\* C28: when every record of every stored prediction set has lower_bound <=
\* prediction <= upper_bound, every record that get_ensemble_predictions
\* returns, for 'mean' and for 'median', has lower_bound <= prediction <=
\* upper_bound, whatever the number of sets and the overlap of their dates.
C28_BoundsOrdered ==
    (last.op = "get_ensemble_predictions" /\ last.raised = "none" /\ StoredOrdered) =>
        \A i \in 1..Len(last.ret.rows) :
            /\ RatioLeq(last.ret.rows[i].lower_bound, last.ret.rows[i].prediction)
            /\ RatioLeq(last.ret.rows[i].prediction, last.ret.rows[i].upper_bound)

\* a median ensemble over three stored sets of two records each whose dates
\* overlap in part only: it has more records than each set
C28_Witness ==
    /\ last.op = "get_ensemble_predictions" /\ last.raised = "none"
    /\ last.args[1] = "median"
    /\ Len(predictions) = 3
    /\ Len(last.ret.rows) > Len(predictions[1].val.rows)
    /\ \E i \in 1..Len(last.ret.rows) :
          ~RatioLeq(last.ret.rows[i].prediction, last.ret.rows[i].lower_bound)

\* C29: predict(0) on a fitted regression model, its estimator trained,
\* returns an empty prediction set without raising.
C29_PredictZeroEmpty ==
    (regLast.op = "predict" /\ regLast.periods = 0
        /\ reg.is_fitted /\ reg.model.st = "trained") =>
        (regLast.raised = "none" /\ Len(regLast.ret) = 0)

\* fit and predict of the models 1..n, each model's fit before its predict,
\* in the order of the list
InsertionOrderCalls(n) ==
    [j \in 1..(2 * n) |->
        [op |-> IF j % 2 = 1 THEN "fit" ELSE "predict", model |-> (j + 1) \div 2]]

\* the forecast of a model constructed as the statement r asked
ForecastOf(r, horizonte) ==
    ModeloPredict(ModeloFit(NewModelo(r.cls, r.modelo_id, r.parts), "datos simulados"),
                  horizonte).ret

\* C30: generar_pronosticos(h) fits and then predicts each model, in the
\* order the models were added, and returns a mapping that holds the
\* modelo_id of every model the caller added with agregar_modelo, each
\* mapped to that model's forecast of exactly h rows.
C30_GenerarPronosticos ==
    (gestLast.op = "generar_pronosticos" /\ session.built) =>
        /\ gestLast.raised = "none"
        /\ gestLast.calls = InsertionOrderCalls(Len(session.modelos))
        /\ \A k \in 1..Len(requested) :
              /\ DictHas(gestLast.ret, requested[k].modelo_id)
              /\ Len(DictGet(gestLast.ret, requested[k].modelo_id).rows) = gestLast.args[1]
              /\ DictGet(gestLast.ret, requested[k].modelo_id)
                    = ForecastOf(requested[k], gestLast.args[1])

=============================================================================
